---- MODULE Spec2Model ----
(***************************************************************************)
(* Model of the card-catalog crawler, api-server/scraper.py.               *)
(*                                                                         *)
(* Python strings are sequences of one-character strings, so that the      *)
(* string operations of the code (upper, strip, rsplit, replace, the two   *)
(* regular expressions) are computed and not assumed.  Python's None is    *)
(* the empty tuple and a present value v is the one-element tuple <<v>>.   *)
(***************************************************************************)
EXTENDS Integers, Sequences, FiniteSets, TLC

\* ------------------------------------------------------------------------
\* Bounds of the model
\* ------------------------------------------------------------------------
MaxRuns == 1
MaxTotalPage == 3
MaxListLen == 2
MaxRequests == 2
MaxUpserts == 2

\* ------------------------------------------------------------------------
\* Python values
\* ------------------------------------------------------------------------
None == <<>>

Some(v) == <<v>>

IsNone(o) == o = <<>>

Val(o) == o[1]

\* ------------------------------------------------------------------------
\* Characters and strings
\* ------------------------------------------------------------------------
LowerChars == <<"a","b","c","d","e","f","g","h","i","j","k","l","m",
                "n","o","p","q","r","s","t","u","v","w","x","y","z">>

UpperChars == <<"A","B","C","D","E","F","G","H","I","J","K","L","M",
                "N","O","P","Q","R","S","T","U","V","W","X","Y","Z">>

DigitChars == <<"0","1","2","3","4","5","6","7","8","9">>

Range(s) == {s[i] : i \in DOMAIN s}

IsUpper(c) == c \in Range(UpperChars)

IsDigit(c) == c \in Range(DigitChars)

IsSpace(c) == c \in {" ", "\t", "\n"}

\* str.upper() on one character
UpperChar(c) ==
    IF c \in Range(LowerChars)
    THEN UpperChars[CHOOSE i \in DOMAIN LowerChars : LowerChars[i] = c]
    ELSE c

\* str.upper()
Upper(s) == [i \in DOMAIN s |-> UpperChar(s[i])]

\* str.strip(): drops the leading and the trailing whitespace
Strip(s) ==
    LET keep == {i \in DOMAIN s : ~IsSpace(s[i])}
    IN  IF keep = {} THEN <<>>
        ELSE LET lo == CHOOSE i \in keep : \A j \in keep : i <= j
                 hi == CHOOSE i \in keep : \A j \in keep : j <= i
             IN  SubSeq(s, lo, hi)

\* str.replace(c, ""): drops every occurrence of the character c
Remove(s, c) == SelectSeq(s, LAMBDA x : x # c)

\* c in s
Contains(s, c) == \E i \in DOMAIN s : s[i] = c

\* index of the last occurrence of c in s (0 when there is none)
LastIndex(s, c) ==
    IF Contains(s, c)
    THEN CHOOSE i \in DOMAIN s : s[i] = c /\ \A j \in DOMAIN s : s[j] = c => j <= i
    ELSE 0

\* s.rsplit(c, 1)[0]
RSplitHead(s, c) ==
    IF Contains(s, c) THEN SubSeq(s, 1, LastIndex(s, c) - 1) ELSE s

\* s.rsplit(c, 1)[-1]
RSplitLast(s, c) == SubSeq(s, LastIndex(s, c) + 1, Len(s))

\* s.split(c)[0]
SplitFirst(s, c) ==
    IF Contains(s, c)
    THEN SubSeq(s, 1, (CHOOSE i \in DOMAIN s :
                          s[i] = c /\ \A j \in DOMAIN s : s[j] = c => i <= j) - 1)
    ELSE s

\* number of consecutive upper-case ASCII letters of s from position i on
RECURSIVE UpperRun(_, _)
UpperRun(s, i) ==
    IF i > Len(s) \/ ~IsUpper(s[i]) THEN 0 ELSE 1 + UpperRun(s, i + 1)

\* number of consecutive digits of s from position i on
RECURSIVE DigitRun(_, _)
DigitRun(s, i) ==
    IF i > Len(s) \/ ~IsDigit(s[i]) THEN 0 ELSE 1 + DigitRun(s, i + 1)

\* "sep".join(parts)
RECURSIVE Join(_, _)
Join(parts, sep) ==
    IF parts = <<>> THEN <<>>
    ELSE IF Len(parts) = 1 THEN parts[1]
    ELSE parts[1] \o sep \o Join(Tail(parts), sep)

\* the value of a digit
DigitVal(c) == (CHOOSE i \in DOMAIN DigitChars : DigitChars[i] = c) - 1

RECURSIVE DigitsVal(_)
DigitsVal(s) ==
    IF s = <<>> THEN 0
    ELSE 10 * DigitsVal(SubSeq(s, 1, Len(s) - 1)) + DigitVal(s[Len(s)])

AllDigits(s) == s # <<>> /\ \A i \in DOMAIN s : IsDigit(s[i])

\* the percent escapes urllib's unquote decodes, as far as the model's URLs use them
PercentCodes == { <<"2","D">>, <<"5","F">>, <<"2","8">>, <<"2","9">> }

PercentChar(h) ==
    CASE h = <<"2","D">> -> "-"
      [] h = <<"5","F">> -> "_"
      [] h = <<"2","8">> -> "("
      [] h = <<"2","9">> -> ")"

\* urllib.parse.unquote
RECURSIVE Unquote(_)
Unquote(s) ==
    IF s = <<>> THEN <<>>
    ELSE IF s[1] = "%" /\ Len(s) >= 3 /\ SubSeq(s, 2, 3) \in PercentCodes
         THEN <<PercentChar(SubSeq(s, 2, 3))>> \o Unquote(SubSeq(s, 4, Len(s)))
         ELSE <<s[1]>> \o Unquote(Tail(s))

\* ------------------------------------------------------------------------
\* Identity extraction
\* ------------------------------------------------------------------------
\* extract_set_code: the part before the last "-", or the whole string
extract_set_code(card_number) ==
    IF Contains(card_number, "-") THEN RSplitHead(card_number, "-") ELSE card_number

\* Position after the match of [A-Z]{1,5}\d*-\d{2,3}(?:_\d+)? that starts at i,
\* or 0 when the pattern does not match there.  Every quantifier is greedy and
\* the character after each run is fixed, so backtracking finds nothing else.
CardNoMatchEnd(s, i) ==
    LET n == UpperRun(s, i)
        d == DigitRun(s, i + n)
        p == i + n + d
        m == DigitRun(s, p + 1)
        k == IF m > 3 THEN 3 ELSE m
        e == p + k
        v == DigitRun(s, e + 2)
    IN  IF n < 1 \/ n > 5 THEN 0
        ELSE IF p > Len(s) \/ s[p] # "-" THEN 0
        ELSE IF m < 2 THEN 0
        ELSE IF e + 1 <= Len(s) /\ s[e + 1] = "_" /\ v >= 1 THEN e + 2 + v
        ELSE e + 1

\* extract_card_number_from_img: re.search over the unquoted last path segment
extract_card_number_from_img(img_url) ==
    LET filename == Unquote(IF Contains(img_url, "/") THEN RSplitLast(img_url, "/")
                            ELSE img_url)
        starts   == {i \in DOMAIN filename : CardNoMatchEnd(filename, i) # 0}
    IN  IF starts = {} THEN None
        ELSE LET i == CHOOSE x \in starts : \A y \in starts : x <= y
             IN  Some(SubSeq(filename, i, CardNoMatchEnd(filename, i) - 1))

\* img_number.split("_")[0] if img_number else None
base_number(img_number) ==
    IF IsNone(img_number) \/ Val(img_number) = <<>> THEN None
    ELSE Some(SplitFirst(Val(img_number), "_"))

\* img_url.rsplit(".", 1)[-1] if "." in img_url else "png"
image_ext(img_url) ==
    IF Contains(img_url, ".") THEN RSplitLast(img_url, ".") ELSE <<"p","n","g">>

\* ------------------------------------------------------------------------
\* Field mapper
\* ------------------------------------------------------------------------
\* the leader kind label of the remote catalog, and another kind
Leader == <<"L">>

Character == <<"K">>

\* parse_int_safe with 0 for whatever int() does not take
parse_int_safe_zero(val) ==
    IF IsNone(val) THEN Some(0)
    ELSE LET s == Strip(Val(val))
         IN  IF AllDigits(s) THEN Some(DigitsVal(s)) ELSE Some(0)

\* parse_int_safe on None or a string: int() of a signed digit string, None for
\* None, "-", "" and anything int() rejects
parse_int_safe(val) ==
    IF IsNone(val) \/ Val(val) = <<"-">> \/ Val(val) = <<>> THEN None
    ELSE LET s == Strip(Val(val))
         IN  IF AllDigits(s) THEN Some(DigitsVal(s))
             ELSE IF Len(s) >= 2 /\ s[1] = "+" /\ AllDigits(Tail(s))
                  THEN Some(DigitsVal(Tail(s)))
             ELSE IF Len(s) >= 2 /\ s[1] = "-" /\ AllDigits(Tail(s))
                  THEN Some(0 - DigitsVal(Tail(s)))
             ELSE None

\* the keys of the mapped record, in the order map_card_detail writes them
CardFields == {"card_number", "name", "name_cn", "card_type", "color", "cost",
               "power", "counter", "life", "attribute", "effect", "trigger",
               "trait", "rarity", "set_code", "image_url"}

\* map_card_detail with the shared numeric field routed to both slots
map_card_detail_both(info) ==
    LET card_number == info.cardNumber
        card_life   == parse_int_safe(info.cardLife)
    IN  [card_number |-> Some(card_number),
         name        |-> Some(info.cardName),
         name_cn     |-> Some(info.cardName),
         card_type   |-> Some(info.cardType),
         color       |-> Some(info.cardColor),
         cost        |-> card_life,
         power       |-> parse_int_safe(info.cardPower),
         counter     |-> parse_int_safe(info.cardAttack),
         life        |-> card_life,
         attribute   |-> Some(Join(info.cardAttribute, <<"/">>)),
         effect      |-> info.cardTextDesc,
         trigger     |-> info.cardTrigger,
         trait       |-> Some(info.cardFeatures),
         rarity      |-> Some(info.cardRarity),
         set_code    |-> Some(extract_set_code(card_number)),
         image_url   |-> Some(info.cardImg)]

\* map_card_detail
map_card_detail(info) ==
    LET card_number == info.cardNumber
        attribute   == Join(info.cardAttribute, <<"/">>)
        card_type   == info.cardType
        card_life   == parse_int_safe(info.cardLife)
        cost        == IF card_type = Leader THEN None ELSE card_life
        life        == IF card_type = Leader THEN card_life ELSE None
    IN  [card_number |-> Some(card_number),
         name        |-> Some(info.cardName),
         name_cn     |-> Some(info.cardName),
         card_type   |-> Some(card_type),
         color       |-> Some(info.cardColor),
         cost        |-> cost,
         power       |-> parse_int_safe(info.cardPower),
         counter     |-> parse_int_safe(info.cardAttack),
         life        |-> life,
         attribute   |-> Some(attribute),
         effect      |-> info.cardTextDesc,
         trigger     |-> info.cardTrigger,
         trait       |-> Some(info.cardFeatures),
         rarity      |-> Some(info.cardRarity),
         set_code    |-> Some(extract_set_code(card_number)),
         image_url   |-> Some(info.cardImg)]

\* ------------------------------------------------------------------------
\* Persistence
\* ------------------------------------------------------------------------
\* Python truthiness of an optional string
Truthy(o) == ~IsNone(o) /\ Val(o) # <<>>

\* select(Card).where(Card.card_number == card_data["card_number"])
ExistingRows(rows, card_data) ==
    {r \in rows : r.card_number = card_data.card_number}

\* Card(**card_data), with image_local when one is given; the primary key id
\* (a fresh uuid in the code) is the next row count: rows are never deleted
NewRow(rows, card_data, image_local) ==
    [f \in CardFields \cup {"id", "image_local"} |->
        IF f = "id" THEN Cardinality(rows) + 1
        ELSE IF f = "image_local"
        THEN (IF Truthy(image_local) THEN image_local ELSE None)
        ELSE card_data[f]]

\* the update loop without its "is not None" tests
UpdatedRowOverwritesAll(existing, card_data, image_local) ==
    [f \in CardFields \cup {"id", "image_local"} |->
        IF f = "id" THEN existing.id
        ELSE IF f = "image_local" THEN image_local
        ELSE card_data[f]]

\* the update loop: setattr for every value that is not None
UpdatedRow(existing, card_data, image_local) ==
    [f \in CardFields \cup {"id", "image_local"} |->
        IF f = "id" THEN existing.id
        ELSE IF f = "image_local"
        THEN (IF Truthy(image_local) THEN image_local ELSE existing.image_local)
        ELSE IF ~IsNone(card_data[f]) THEN card_data[f] ELSE existing[f]]

\* save_card_to_db writing the table anew: the rows of other cards are lost
save_replaces_table(rows, card_data, image_local) ==
    {NewRow({}, card_data, image_local)}

\* save_card_to_db without the lookup: every call adds a row
save_always_inserts(rows, card_data, image_local) ==
    rows \cup {NewRow(rows, card_data, image_local)}

\* save_card_to_db, the table after the commit.  scalar_one_or_none raises when
\* several rows have the key: nothing is committed then.
save_card_to_db(rows, card_data, image_local) ==
    LET found == ExistingRows(rows, card_data)
    IN  IF found = {} THEN rows \cup {NewRow(rows, card_data, image_local)}
        ELSE IF Cardinality(found) = 1
        THEN (rows \ found) \cup {UpdatedRow(r, card_data, image_local) : r \in found}
        ELSE rows

\* save_card_to_db, the value returned: True for a new row, False for an update
save_is_new(rows, card_data) == ExistingRows(rows, card_data) = {}

\* ------------------------------------------------------------------------
\* Set-name matching
\* ------------------------------------------------------------------------
\* re.search of the bracketed code in a set name: the text between the first
\* opening bracket that is followed by at least one character other than the
\* closing bracket, and the next closing bracket
BracketCode(name) ==
    LET closeAfter(i) == {j \in DOMAIN name : j > i /\ name[j] = "]"}
        starts == {i \in DOMAIN name :
                     /\ name[i] = "["
                     /\ closeAfter(i) # {}
                     /\ \E j \in closeAfter(i) : j > i + 1
                     /\ i + 1 \notin closeAfter(i)}
    IN  IF starts = {} THEN None
        ELSE LET i == CHOOSE x \in starts : \A y \in starts : x <= y
                 j == CHOOSE x \in closeAfter(i) : \A y \in closeAfter(i) : x <= y
             IN  Some(SubSeq(name, i + 1, j - 1))

\* the test find_set_name applies to one set name
SetNameMatches(name, code_upper) ==
    LET m == BracketCode(name)
    IN  /\ ~IsNone(m)
        /\ LET inner_code  == Val(m)
               inner_clean == Remove(Remove(inner_code, "-"), "C")
               code_clean  == Remove(Remove(code_upper, "-"), "C")
           IN  \/ inner_clean = code_clean
               \/ Upper(inner_code) = code_upper
               \/ Remove(Remove(inner_code, "C"), "-") = Remove(code_upper, "-")

\* find_set_name: the first set of the list, in order, that passes the test
find_set_name(sets, set_code) ==
    LET code_upper == Upper(set_code)
        hits == {i \in DOMAIN sets : SetNameMatches(sets[i].name, code_upper)}
    IN  IF hits = {} THEN None
        ELSE Some(sets[CHOOSE i \in hits : \A j \in hits : i <= j].name)

\* ------------------------------------------------------------------------
\* The remote catalog service and the operator's requests: what the
\* environment can supply.  Chinese labels and brackets are written in ASCII:
\* Leader stands for the leader label, "[" and "]" for the brackets of a set name.
\* ------------------------------------------------------------------------
N1 == <<"E","B","0","4","-","0","0","1">>

N2 == <<"P","-","0","0","6">>

\* image URLs: a base art of N1, an alternate art of N1, an art of N2 whose
\* file name is percent-encoded, the last two with no "/" before the file name
Img1 == <<"p","/","1","7","E","B","0","4","-","0","0","1",".","p","n","g">>

Img2 == <<"E","B","0","4","-","0","0","1","_","0","1",".","p","n","g">>

Img3 == <<"9","P","%","2","D","0","0","6","%","2","8","1","%","2","9",".","j","p","g">>

\* the entries a list page can hold: remote id and image URL
Items == { [id |-> 1, cardImg |-> Img1],
           [id |-> 2, cardImg |-> Img2],
           [id |-> 3, cardImg |-> Img3] }

Ids == {it.id : it \in Items}

RECURSIVE SeqsUpTo(_, _)
SeqsUpTo(S, n) ==
    IF n = 0 THEN {<<>>}
    ELSE LET shorter == SeqsUpTo(S, n - 1)
         IN  shorter \cup {Append(q, x) : q \in shorter, x \in S}

\* the item lists a list response can carry
PageLists == SeqsUpTo(Items, MaxListLen)

\* a raw detail record ("info" of the detail response)
RawInfo(number, kind, life, power, text) ==
    [cardNumber    |-> number,
     cardName      |-> <<"n">> \o number,
     cardType      |-> kind,
     cardColor     |-> <<"r">>,
     cardLife      |-> life,
     cardPower     |-> power,
     cardAttack    |-> Some(<<"-">>),
     cardAttribute |-> << <<"s">>, <<"t">> >>,
     cardTextDesc  |-> text,
     cardTrigger   |-> None,
     cardFeatures  |-> <<"f">>,
     cardRarity    |-> <<"C">>,
     cardImg       |-> IF number = N1 THEN Img1 ELSE Img3]

\* the detail records the crawls of the model can receive
CrawlInfos ==
    { RawInfo(N1, Leader, Some(<<"5">>), Some(<<"5","0","0","0">>), Some(<<"a">>)),
      RawInfo(N1, Character, Some(<<"3">>), Some(<<"-">>), Some(<<"b">>)),
      RawInfo(N2, Character, Some(<<"-">>), None, None) }

\* the detail records the service can return for the item with image URL url:
\* those of the card number the URL encodes
DetailInfos(url) ==
    {info \in CrawlInfos :
        Some(info.cardNumber) = base_number(extract_card_number_from_img(url))}

\* the detail records the upsert is exercised with
RawInfos ==
    { RawInfo(n, k, l, p, t) :
        n \in {N1, N2}, k \in {Leader, Character},
        l \in {Some(<<"5">>), Some(<<"-">>)},
        p \in {Some(<<"5","0","0","0">>), None},
        t \in {Some(<<"a">>), Some(<<"b">>), None} }

\* the identifier lists the operator can request (argparse gives at least one)
RequestNumbers == { N1, <<" ","e","b","0","4","-","0","0","1">>, N2,
                    <<"Z","Z","9","9","-","0","0","1">> }

RequestLists == SeqsUpTo(RequestNumbers, MaxRequests) \ {<<>>}

\* set catalog entries and the catalogs the service can return
SetA == [name |-> <<"x","[","E","B","C","-","0","4","]","y">>]

SetB == [name |-> <<"[","O","P","C","-","0","1","]">>]

SetCatalogs == { <<>>, <<SetB, SetA>> }

RequestSetCodes == { <<"E","B","0","4">>, <<"o","p","0","1">>, <<"Z","Z","9","9">> }

\* ------------------------------------------------------------------------
\* State
\* ------------------------------------------------------------------------
VARIABLES
    db,            \* the cards table: a set of rows
    files,         \* the file names present in CARDS_DIR
    runs,          \* crawl invocations started so far
    strategy,      \* "none", "ids", "set", "all", "upsert"
    pc,            \* position of the running coroutine
    error,         \* the exception that ended the run, if any
    queue,         \* by-identifier: card numbers not yet processed
    card_no,       \* by-identifier: the normalised card number being searched
    found_count,   \* by-identifier: found_count
    total,         \* by-identifier: total
    not_found,     \* by-identifier: not_found
    set_code,      \* by-set: the requested set code
    sets,          \* by-set: the set catalog fetched
    set_name,      \* by-set: the resolved set name
    page,          \* by-set, all: page
    total_pages,   \* by-set, all: total_pages
    count,         \* by-set, all: count
    seen_ids,      \* by-set, all: seen_ids
    card_list,     \* the item list of the last list response
    idx,           \* position in card_list of the item being processed
    card_id,       \* id of the item being processed
    img_url,       \* image URL of the item being processed
    detail,        \* the raw detail record of the item being processed
    card_data,     \* the mapped record of the item being processed
    img_filename,  \* the image file name of the item being processed
    downloaded,    \* the result of download_image for the item
    ops,           \* history: operations performed in this run, by kind
    page_log,      \* history: the list responses of the paging loop of this run
    fetched,       \* history: detail requests of this run, counted by remote id
    absent,        \* history: card numbers whose detail response was empty
    last,          \* history: the last upsert (arguments, table before, result)
    outcome,       \* history: per remote id, whether a page of the loop listed it,
                   \* the detail responses with a record and the upserts of this run
    in_flight,     \* the network operations sent and not yet answered, by kind
    trace          \* history: the requests, delays and upserts since the request of
                   \* the list in hand, that request first

persistent == <<db, files, runs>>

idsVars == <<queue, card_no, found_count, total, not_found>>

pageVars == <<set_code, set_name, page, total_pages, count, seen_ids>>

itemVars == <<card_list, idx, card_id, img_url, detail, card_data, img_filename,
              downloaded>>

vars == <<db, files, runs, strategy, pc, error, queue, card_no, found_count, total,
          not_found, set_code, set_name, page, total_pages, count, seen_ids, card_list, idx,
          card_id, img_url, card_data, img_filename, downloaded, ops, page_log, fetched,
          absent, last, in_flight, trace, outcome, sets, detail>>

\* detail_iter: the detail requests of the current by-identifier iteration
NoOps == [sets |-> 0, list |-> 0, detail |-> 0, detail_iter |-> 0, image |-> 0,
          upsert |-> 0]

NoneFetched == [i \in Ids |-> 0]

NoOutcome == [i \in Ids |-> [listed |-> FALSE, present |-> 0, stored |-> 0]]

\* the ids of a list response of the paging loop are noted
Listed(o, list) ==
    [i \in Ids |-> IF \E k \in DOMAIN list : list[k].id = i
                   THEN [o[i] EXCEPT !.listed = TRUE] ELSE o[i]]

histVars == <<ops, page_log, fetched, outcome, absent>>

Bump(o, kind) == [o EXCEPT ![kind] = @ + 1]

NoLast == [card_data |-> None, image_local |-> None, before |-> {}, is_new |-> FALSE,
           repeat |-> FALSE]

\* the locals of a crawl before it starts
InitLocals ==
    /\ error = None
    /\ queue = <<>> /\ card_no = <<>> /\ found_count = 0 /\ total = 0
    /\ not_found = <<>>
    /\ set_code = <<>> /\ sets = <<>> /\ set_name = None /\ page = 1 /\ total_pages = 0 /\ count = 0 /\ seen_ids = {}
    /\ card_list = <<>> /\ idx = 0 /\ card_id = 0 /\ img_url = <<>>
    /\ detail = None /\ card_data = None /\ img_filename = <<>> /\ downloaded = FALSE
    /\ ops = NoOps /\ page_log = <<>> /\ fetched = NoneFetched /\ absent = {}
    /\ in_flight = {} /\ trace = <<>> /\ outcome = NoOutcome

Init ==
    /\ db = {} /\ files = {} /\ runs = 0
    /\ strategy = "none" /\ pc = "idle"
    /\ InitLocals
    /\ last = NoLast

\* ------------------------------------------------------------------------
\* Steps shared by the strategies
\* ------------------------------------------------------------------------
Idle == pc \in {"idle", "done", "aborted"}

\* the loop temporaries after an item is finished: dead until reassigned
ClearItem ==
    /\ card_id' = 0 /\ img_url' = <<>> /\ detail' = None /\ card_data' = None
    /\ img_filename' = <<>> /\ downloaded' = FALSE

\* a new invocation with its arguments: fresh locals
FreshLocals(card_numbers, code) ==
    /\ error' = None
    /\ queue' = card_numbers /\ card_no' = <<>> /\ found_count' = 0
    /\ total' = Len(card_numbers)
    /\ not_found' = <<>>
    /\ set_code' = code /\ sets' = <<>> /\ set_name' = None /\ page' = 1 /\ total_pages' = 0
    /\ count' = 0 /\ seen_ids' = {}
    /\ card_list' = <<>> /\ idx' = 0 /\ ClearItem
    /\ ops' = NoOps /\ page_log' = <<>> /\ fetched' = NoneFetched /\ absent' = {}
    /\ in_flight' = {} /\ trace' = <<>> /\ outcome' = NoOutcome

\* the network operation the coroutine awaits at position p, or "none"
NetOp(p) ==
    CASE p \in {"ids_search", "list", "all_prefetch"} -> "list"
      [] p \in {"ids_detail", "detail"}               -> "detail"
      [] p \in {"ids_image", "image"}                 -> "image"
      [] p = "set_sets"                               -> "sets"
      [] OTHER                                        -> "none"

\* an entry of trace: the kind of step, the position of the coroutine, the page
\* argument in force and the position of the item in card_list (0 outside the
\* item loop)
Event(op) ==
    [op |-> op, at |-> pc, page |-> page,
     pos |-> IF pc \in {"list", "all_prefetch", "ids_search", "set_sets"} THEN 0 ELSE idx]

\* the operation stays counted as outstanding after its response
SettleNever(flight, op) == flight

\* the awaited call returns or raises: the operation is no longer outstanding
Settle(flight, op) == flight \ {op}

\* "await client.post(...)" / "await client.get(...)": the request goes out and
\* the coroutine is suspended until the response
Send ==
    /\ NetOp(pc) # "none"
    /\ NetOp(pc) \notin in_flight
    /\ in_flight' = in_flight \cup {NetOp(pc)}
    /\ trace' = Append(trace, Event(NetOp(pc)))
    /\ UNCHANGED <<persistent, strategy, pc, error, idsVars, pageVars, itemVars,
                   ops, page_log, fetched, outcome, absent, last, sets>>

\* the awaited operation ends, with a response or with an exception
Answered ==
    /\ NetOp(pc) \in in_flight
    /\ in_flight' = Settle(in_flight, NetOp(pc))

\* the end of a detail, image or set-catalog request
Receive ==
    /\ Answered
    /\ UNCHANGED trace

\* a list response is taken in hand: the history starts again at its request
NewList == trace' = <<trace[Len(trace)]>>

\* await asyncio.sleep(REQUEST_DELAY)
Delay ==
    /\ trace' = Append(trace, Event("delay"))
    /\ UNCHANGED in_flight

\* a transport failure that is swallowed and the request repeated
TransportFailureRetried ==
    /\ error' = Some("TransportError")
    /\ UNCHANGED <<pc, persistent, strategy, idsVars, pageVars, itemVars, last, sets>>

\* resp.raise_for_status() raises out of fetch_card_list, fetch_card_detail or
\* fetch_sets: no caller catches it, the coroutine and asyncio.run end with it
TransportFailure ==
    /\ pc' = "aborted"
    /\ error' = Some("TransportError")
    /\ ClearItem
    /\ UNCHANGED <<persistent, strategy, idsVars, pageVars, card_list, idx, last, sets>>

\* "cards/" + img_filename
CardsPath(name) == <<"c","a","r","d","s","/">> \o name

\* download_image reporting success without having written the file
download_image_unwritten(ok) ==
    /\ downloaded' = ok
    /\ files' = files

\* download_image: True after the file is written, False after any exception
download_image(ok) ==
    /\ downloaded' = ok
    /\ files' = IF ok THEN files \cup {img_filename} ELSE files

\* image_local set whatever download_image returned
image_local_always == Some(CardsPath(img_filename))

\* image_local = f"cards/{img_filename}" if downloaded else None
image_local == IF downloaded THEN Some(CardsPath(img_filename)) ELSE None

\* await save_card_to_db(card_data, image_local)
SaveCard ==
    /\ db' = save_card_to_db(db, card_data, image_local)
    /\ ops' = Bump(ops, "upsert")
    /\ trace' = Append(trace, Event("upsert"))
    /\ outcome' = [outcome EXCEPT ![card_id].stored = @ + 1]
    /\ UNCHANGED <<last, sets, in_flight>>

\* ------------------------------------------------------------------------
\* scrape_by_card_numbers
\* ------------------------------------------------------------------------
\* the first item of the list, whatever its number
FirstItem(list, no) == IF list = <<>> THEN 0 ELSE 1

\* position of the first item of the list whose base number is card_no, or 0
FirstMatch(list, no) ==
    LET hits == {i \in DOMAIN list :
                   base_number(extract_card_number_from_img(list[i].cardImg)) = Some(no)}
    IN  IF hits = {} THEN 0 ELSE CHOOSE i \in hits : \A j \in hits : i <= j

StartIds ==
    /\ Idle /\ runs < MaxRuns
    /\ \E reqs \in RequestLists : FreshLocals(reqs, <<>>)
    /\ runs' = runs + 1
    /\ strategy' = "ids" /\ pc' = "ids_search"
    /\ UNCHANGED <<db, files, last>>

\* the next iteration of "for card_no in card_numbers", or the summary
IdsNext ==
    /\ queue' = Tail(queue)
    /\ pc' = IF Tail(queue) = <<>> THEN "done" ELSE "ids_search"

\* the search request and the scan of its result
IdsSearch ==
    /\ pc = "ids_search"
    /\ Answered
    /\ ops' = [Bump(ops, "list") EXCEPT !.detail_iter = 0]
    /\ UNCHANGED <<page_log, fetched, outcome, absent>>
    /\ \/ TransportFailure /\ UNCHANGED trace
       \/ \E list \in PageLists :
            LET no == Upper(Strip(Head(queue)))
                m  == FirstMatch(list, no)
            IN  /\ card_no' = no
                /\ NewList
                /\ card_list' = list
                /\ IF list = <<>>
                   THEN /\ not_found' = Append(not_found, no)
                        /\ IdsNext
                        /\ idx' = 0 /\ ClearItem
                   ELSE IF m = 0
                   THEN /\ not_found' = Append(not_found, no)
                        /\ pc' = "ids_sleep2"
                        /\ idx' = Len(list) /\ ClearItem
                        /\ UNCHANGED queue
                   ELSE /\ idx' = m
                        /\ card_id' = list[m].id
                        /\ img_url' = list[m].cardImg
                        /\ pc' = "ids_sleep1"
                        /\ UNCHANGED <<queue, not_found, detail, card_data, img_filename,
                                       downloaded>>
                /\ UNCHANGED <<persistent, strategy, error, found_count, total,
                               pageVars, last, sets>>

\* await asyncio.sleep(REQUEST_DELAY) before the detail request
IdsSleep1 ==
    /\ pc = "ids_sleep1"
    /\ Delay
    /\ pc' = "ids_detail"
    /\ UNCHANGED <<persistent, strategy, error, idsVars, pageVars, itemVars, histVars,
                   last, sets>>

IdsDetail ==
    /\ pc = "ids_detail"
    /\ Receive
    /\ ops' = Bump(Bump(ops, "detail"), "detail_iter")
    /\ fetched' = [fetched EXCEPT ![card_id] = @ + 1]
    /\ UNCHANGED page_log
    /\ \/ TransportFailure /\ UNCHANGED <<absent, outcome>>
       \/ /\ pc' = "ids_sleep2"
          /\ absent' = absent \cup {card_no}
          /\ UNCHANGED outcome
          /\ ClearItem
          /\ UNCHANGED <<persistent, strategy, error, idsVars, pageVars, card_list,
                         idx, last, sets>>
       \/ \E info \in DetailInfos(img_url) :
            /\ detail' = Some(info)
            /\ card_data' = map_card_detail(info)
            /\ outcome' = [outcome EXCEPT ![card_id].present = @ + 1]
            /\ img_filename' = info.cardNumber \o <<".">> \o image_ext(img_url)
            /\ pc' = "ids_image"
            /\ UNCHANGED <<absent, persistent, strategy, error, idsVars, pageVars, card_list,
                           idx, card_id, img_url, downloaded, last, sets>>

IdsImage ==
    /\ pc = "ids_image"
    /\ Receive
    /\ \E ok \in BOOLEAN : download_image(ok)
    /\ ops' = Bump(ops, "image")
    /\ pc' = "ids_save"
    /\ UNCHANGED <<page_log, fetched, outcome, absent, db, runs, strategy, error, idsVars, pageVars, card_list, idx,
                   card_id, img_url, detail, card_data, img_filename, last, sets>>

\* the upsert of the matched item without found_count += 1
IdsSaveUncounted ==
    /\ pc = "ids_save"
    /\ SaveCard
    /\ found_count' = found_count
    /\ pc' = "ids_sleep2"
    /\ ClearItem
    /\ UNCHANGED <<files, runs, strategy, error, queue, card_no, total, not_found,
                   pageVars, card_list, idx, page_log, fetched, absent>>

IdsSave ==
    /\ pc = "ids_save"
    /\ SaveCard
    /\ found_count' = found_count + 1
    /\ pc' = "ids_sleep2"
    /\ ClearItem
    /\ UNCHANGED <<files, runs, strategy, error, queue, card_no, total, not_found,
                   pageVars, card_list, idx, page_log, fetched, absent>>

\* await asyncio.sleep(REQUEST_DELAY) at the end of the iteration
IdsSleep2 ==
    /\ pc = "ids_sleep2"
    /\ Delay
    /\ IdsNext
    /\ UNCHANGED <<persistent, strategy, error, card_no, found_count, total, not_found,
                   pageVars, itemVars, histVars, last, sets>>

\* ------------------------------------------------------------------------
\* scrape_by_set and scrape_all: the paging loop
\* ------------------------------------------------------------------------
\* seen_ids left as it was
MarkSeenForgets(seen, id) == seen

\* seen_ids.add(card_id)
MarkSeen(seen, id) == seen \cup {id}

\* the last unseen item of the list is taken first
LastNew(list, i, seen) ==
    LET fresh == {j \in DOMAIN list : j > i /\ list[j].id \notin seen}
    IN  IF fresh = {} THEN 0 ELSE CHOOSE j \in fresh : \A k \in fresh : j >= k

\* position of the first item after position i whose id is not in seen, or 0:
\* the items "if card_id in seen_ids: continue" skips are passed over
NextNew(list, i, seen) ==
    LET fresh == {j \in DOMAIN list : j > i /\ list[j].id \notin seen}
    IN  IF fresh = {} THEN 0 ELSE CHOOSE j \in fresh : \A k \in fresh : j <= k

\* the loop left one page early
LastPageEarly(p, tp) == p + 1 >= tp

\* the page test off by one
LastPagePassed(p, tp) == p > tp

\* if page >= total_pages: break
LastPage(p, tp) == p >= tp

\* if not card_list: break
EmptyPage(list) == list = <<>>

\* "for item in card_list" from position i on, then the end of the while body:
\* the next item that is not seen yet is taken up, or the page is finished
Continue(list, i, tp) ==
    LET j == NextNew(list, i, seen_ids)
    IN  IF j # 0
        THEN /\ idx' = j
             /\ card_id' = list[j].id
             /\ seen_ids' = MarkSeen(seen_ids, list[j].id)
             /\ img_url' = list[j].cardImg
             /\ detail' = None /\ card_data' = None /\ img_filename' = <<>>
             /\ downloaded' = FALSE
             /\ pc' = "sleep"
             /\ UNCHANGED page
        ELSE /\ idx' = Len(list)
             /\ ClearItem
             /\ UNCHANGED seen_ids
             /\ IF LastPage(page, tp)
                THEN pc' = "done" /\ UNCHANGED page
                ELSE pc' = "list" /\ page' = page + 1

\* by-set file name: the card number, or the extracted number of an alternate art
set_img_filename(data, url) ==
    LET ext        == image_ext(url)
        img_number == extract_card_number_from_img(url)
    IN  IF Truthy(img_number) /\ Contains(Val(img_number), "_")
        THEN Val(img_number) \o <<".">> \o ext
        ELSE Val(data.card_number) \o <<".">> \o ext

\* all: the same choice, written as an if/else
all_img_filename(data, url) ==
    LET ext        == image_ext(url)
        img_number == extract_card_number_from_img(url)
    IN  IF Truthy(img_number) /\ Contains(Val(img_number), "_")
        THEN Val(img_number) \o <<".">> \o ext
        ELSE Val(data.card_number) \o <<".">> \o ext

StartSet ==
    /\ Idle /\ runs < MaxRuns
    /\ \E code \in RequestSetCodes : FreshLocals(<<>>, code)
    /\ runs' = runs + 1
    /\ strategy' = "set" /\ pc' = "set_sets"
    /\ UNCHANGED <<db, files, last>>

\* the early return left out
SetNeverUnresolved(name) == FALSE

\* if not set_name: ... return
SetUnresolved(name) == ~Truthy(name)

\* fetch_sets and find_set_name: an unmatched code ends the run
SetFetchSets ==
    /\ pc = "set_sets"
    /\ Receive
    /\ ops' = Bump(ops, "sets")
    /\ UNCHANGED <<page_log, fetched, outcome, absent>>
    /\ \/ TransportFailure
       \/ \E catalog \in SetCatalogs :
            LET name == find_set_name(catalog, set_code)
            IN  /\ sets' = catalog
                /\ set_name' = name
                /\ pc' = IF SetUnresolved(name) THEN "done" ELSE "list"
                /\ UNCHANGED <<persistent, strategy, error, idsVars, set_code, page,
                               total_pages, count, seen_ids, itemVars, last>>

\* one pass of "while True" in scrape_by_set up to the first await of the item loop
SetFetchList ==
    /\ strategy = "set" /\ pc = "list"
    /\ Answered
    /\ ops' = Bump(ops, "list")
    /\ UNCHANGED <<fetched, absent>>
    /\ \/ TransportFailure /\ UNCHANGED <<page_log, trace, outcome>>
       \/ \E list \in PageLists, tp \in 0..MaxTotalPage :
            /\ NewList
            /\ outcome' = Listed(outcome, list)
            /\ page_log' = Append(page_log, [page |-> page, empty |-> list = <<>>,
                                              total |-> tp])
            /\ card_list' = list
            /\ total_pages' = tp
            /\ IF EmptyPage(list)
               THEN /\ pc' = "done"
                    /\ idx' = 0 /\ ClearItem
                    /\ UNCHANGED <<page, seen_ids>>
               ELSE Continue(list, 0, tp)
            /\ UNCHANGED <<persistent, strategy, error, idsVars, set_code, set_name,
                           count, last, sets>>

StartAll ==
    /\ Idle /\ runs < MaxRuns
    /\ FreshLocals(<<>>, <<>>)
    /\ runs' = runs + 1
    /\ strategy' = "all" /\ pc' = "all_prefetch"
    /\ UNCHANGED <<db, files, last>>

\* scrape_all: the first request, which reads the totals
AllPrefetch ==
    /\ pc = "all_prefetch"
    /\ Answered
    /\ ops' = Bump(ops, "list")
    /\ UNCHANGED <<page_log, fetched, outcome, absent>>
    /\ \/ TransportFailure /\ UNCHANGED trace
       \/ \E list \in PageLists, tp \in 0..MaxTotalPage :
            /\ NewList
            /\ total_pages' = tp
            /\ pc' = "list"
            /\ UNCHANGED <<persistent, strategy, error, idsVars, set_code, set_name,
                           page, count, seen_ids, itemVars, last, sets>>

\* one pass of "while True" in scrape_all: total_pages stays as first read
AllFetchList ==
    /\ strategy = "all" /\ pc = "list"
    /\ Answered
    /\ ops' = Bump(ops, "list")
    /\ UNCHANGED <<fetched, absent>>
    /\ \/ TransportFailure /\ UNCHANGED <<page_log, trace, outcome>>
       \/ \E list \in PageLists :
            /\ NewList
            /\ outcome' = Listed(outcome, list)
            /\ page_log' = Append(page_log, [page |-> page, empty |-> list = <<>>,
                                              total |-> total_pages])
            /\ card_list' = list
            /\ IF EmptyPage(list)
               THEN /\ pc' = "done"
                    /\ idx' = 0 /\ ClearItem
                    /\ UNCHANGED <<page, seen_ids>>
               ELSE Continue(list, 0, total_pages)
            /\ UNCHANGED <<persistent, strategy, error, idsVars, set_code, set_name,
                           total_pages, count, last, sets>>

\* await asyncio.sleep(REQUEST_DELAY) before the detail request
PageSleep ==
    /\ pc = "sleep"
    /\ Delay
    /\ pc' = "detail"
    /\ UNCHANGED <<persistent, strategy, error, idsVars, pageVars, itemVars, histVars,
                   last, sets>>

\* scrape_by_set: fetch_card_detail and, for a present record, the mapping and the
\* file name; an empty payload moves on to the next item
SetDetail ==
    /\ strategy = "set" /\ pc = "detail"
    /\ Receive
    /\ ops' = Bump(ops, "detail")
    /\ fetched' = [fetched EXCEPT ![card_id] = @ + 1]
    /\ UNCHANGED <<page_log, absent>>
    /\ \/ TransportFailure /\ UNCHANGED outcome
       \/ /\ Continue(card_list, idx, total_pages)
          /\ UNCHANGED outcome
          /\ UNCHANGED <<persistent, strategy, error, idsVars, set_code, set_name,
                         total_pages, count, card_list, last, sets>>
       \/ \E info \in DetailInfos(img_url) :
            /\ detail' = Some(info)
            /\ card_data' = map_card_detail(info)
            /\ outcome' = [outcome EXCEPT ![card_id].present = @ + 1]
            /\ img_filename' = set_img_filename(map_card_detail(info), img_url)
            /\ pc' = "image"
            /\ UNCHANGED <<persistent, strategy, error, idsVars, pageVars, card_list,
                           idx, card_id, img_url, downloaded, last, sets>>

\* scrape_all: the same step
AllDetail ==
    /\ strategy = "all" /\ pc = "detail"
    /\ Receive
    /\ ops' = Bump(ops, "detail")
    /\ fetched' = [fetched EXCEPT ![card_id] = @ + 1]
    /\ UNCHANGED <<page_log, absent>>
    /\ \/ TransportFailure /\ UNCHANGED outcome
       \/ /\ Continue(card_list, idx, total_pages)
          /\ UNCHANGED outcome
          /\ UNCHANGED <<persistent, strategy, error, idsVars, set_code, set_name,
                         total_pages, count, card_list, last, sets>>
       \/ \E info \in DetailInfos(img_url) :
            /\ detail' = Some(info)
            /\ card_data' = map_card_detail(info)
            /\ outcome' = [outcome EXCEPT ![card_id].present = @ + 1]
            /\ img_filename' = all_img_filename(map_card_detail(info), img_url)
            /\ pc' = "image"
            /\ UNCHANGED <<persistent, strategy, error, idsVars, pageVars, card_list,
                           idx, card_id, img_url, downloaded, last, sets>>

PageImage ==
    /\ pc = "image"
    /\ Receive
    /\ \E ok \in BOOLEAN : download_image(ok)
    /\ ops' = Bump(ops, "image")
    /\ pc' = "save"
    /\ UNCHANGED <<page_log, fetched, outcome, absent, db, runs, strategy, error, idsVars, pageVars, card_list, idx,
                   card_id, img_url, detail, card_data, img_filename, last, sets>>

\* save_card_to_db, count += 1, and on to the next item or page
PageSave ==
    /\ pc = "save"
    /\ SaveCard
    /\ count' = count + 1
    /\ Continue(card_list, idx, total_pages)
    /\ UNCHANGED <<files, runs, strategy, error, idsVars, set_code, set_name,
                   total_pages, card_list, page_log, fetched, absent>>

\* ------------------------------------------------------------------------
\* The crawler
\* ------------------------------------------------------------------------
NextIds ==
    \/ Send
    \/ StartIds \/ IdsSearch \/ IdsSleep1 \/ IdsDetail \/ IdsImage \/ IdsSave
    \/ IdsSleep2

\* by-identifier invocations only
SpecIds == Init /\ [][NextIds]_vars

Next ==
    \/ NextIds
    \/ StartSet \/ SetFetchSets \/ SetFetchList \/ SetDetail
    \/ StartAll \/ AllPrefetch \/ AllFetchList \/ AllDetail
    \/ PageSleep \/ PageImage \/ PageSave

Spec == Init /\ [][Next]_vars

\* by-set and all invocations only
NextPaging ==
    \/ Send
    \/ StartSet \/ SetFetchSets \/ SetFetchList \/ SetDetail
    \/ StartAll \/ AllPrefetch \/ AllFetchList \/ AllDetail
    \/ PageSleep \/ PageImage \/ PageSave

\* a remote service that answers every request, lists no empty page and
\* reports one and the same total of at least one page on every list response
SteadyRemote ==
    /\ error = None
    /\ ops.list >= 1 => total_pages >= 1
    /\ \A k \in DOMAIN page_log :
         ~page_log[k].empty /\ page_log[k].total = total_pages

\* the steps of by-set and all runs against such a service
SteadyPaging == NextPaging /\ SteadyRemote'

\* asyncio.run drives the coroutine until it returns or raises: a step that
\* can be taken is taken
FairPaging == Init /\ [][SteadyPaging]_vars /\ WF_vars(SteadyPaging)

\* ------------------------------------------------------------------------
\* The item pipeline on its own: map_card_detail, then save_card_to_db with
\* the image path of a download that succeeded or failed, for any raw record
\* ------------------------------------------------------------------------
UpsertMapped ==
    /\ ops.upsert < MaxUpserts
    /\ \E info \in RawInfos, ok \in BOOLEAN :
         LET data == map_card_detail(info)
             path == IF ok THEN Some(CardsPath(info.cardNumber \o <<".","p","n","g">>))
                     ELSE None
         IN  /\ db' = save_card_to_db(db, data, path)
             /\ last' = [card_data   |-> data,
                         image_local |-> path,
                         before      |-> db,
                         is_new      |-> save_is_new(db, data),
                         repeat      |-> /\ last.is_new
                                         /\ last.card_data = data
                                         /\ last.image_local = path]
    /\ ops' = Bump(ops, "upsert")
    /\ UNCHANGED <<files, runs, strategy, pc, error, idsVars, pageVars, itemVars,
                   page_log, fetched, outcome, absent, in_flight, trace, sets>>

SpecUpsert == Init /\ [][UpsertMapped]_vars

\* ------------------------------------------------------------------------
\* find_set_name on its own: any catalog of up to MaxSets sets, any code
\* ------------------------------------------------------------------------
MaxSets == 2

\* a set whose bracketed code is the plain code, one without brackets and
\* one with nothing between the brackets
SetExact == [name |-> <<"[","E","B","0","4","]">>]

SetPlain == [name |-> <<"a","b">>]

SetEmpty == [name |-> <<"[","]","z">>]

FindCatalogs == SeqsUpTo({SetA, SetB, SetExact, SetPlain, SetEmpty}, MaxSets)

FindCodes == RequestSetCodes \cup { <<"O","P","C","-","0","1">> }

InitFind ==
    /\ db = {} /\ files = {} /\ runs = 0
    /\ strategy = "none" /\ pc = "idle"
    /\ error = None
    /\ queue = <<>> /\ card_no = <<>> /\ found_count = 0 /\ total = 0
    /\ not_found = <<>>
    /\ set_code \in FindCodes /\ sets \in FindCatalogs
    /\ set_name = None /\ page = 1 /\ total_pages = 0 /\ count = 0 /\ seen_ids = {}
    /\ card_list = <<>> /\ idx = 0 /\ card_id = 0 /\ img_url = <<>>
    /\ detail = None /\ card_data = None /\ img_filename = <<>> /\ downloaded = FALSE
    /\ ops = NoOps /\ page_log = <<>> /\ fetched = NoneFetched /\ absent = {}
    /\ in_flight = {} /\ trace = <<>> /\ outcome = NoOutcome
    /\ last = NoLast

\* set_name = find_set_name(sets, set_code)
FindSetName ==
    /\ pc = "idle"
    /\ set_name' = find_set_name(sets, set_code)
    /\ pc' = "done"
    /\ UNCHANGED <<persistent, strategy, error, idsVars, set_code, sets, page,
                   total_pages, count, seen_ids, itemVars, histVars, last, in_flight,
                   trace>>

SpecFind == InitFind /\ [][FindSetName]_vars

\* ------------------------------------------------------------------------
\* map_card_detail on its own: any raw record of MapInfos
\* ------------------------------------------------------------------------
\* values of a raw numeric field: numbers, the placeholder, the empty string,
\* a missing value, and strings int() rejects or strips
RawNumbers ==
    { Some(<<"5">>), Some(<<"1","0">>), Some(<<" ","7"," ">>), Some(<<"-","3">>),
      Some(<<"-">>), Some(<<>>), None, Some(<<"x">>), Some(<<"1",".","5">>) }

MapInfos ==
    { RawInfo(n, k, l, p, None) :
        n \in {N1, N2}, k \in {Leader, Character},
        l \in RawNumbers, p \in {Some(<<"5","0","0","0">>), Some(<<"-">>), None} }

InitMap ==
    /\ db = {} /\ files = {} /\ runs = 0
    /\ strategy = "none" /\ pc = "idle"
    /\ error = None
    /\ queue = <<>> /\ card_no = <<>> /\ found_count = 0 /\ total = 0
    /\ not_found = <<>>
    /\ set_code = <<>> /\ sets = <<>>
    /\ set_name = None /\ page = 1 /\ total_pages = 0 /\ count = 0 /\ seen_ids = {}
    /\ card_list = <<>> /\ idx = 0 /\ card_id = 0 /\ img_url = <<>>
    /\ detail \in {Some(info) : info \in MapInfos}
    /\ card_data = None /\ img_filename = <<>> /\ downloaded = FALSE
    /\ ops = NoOps /\ page_log = <<>> /\ fetched = NoneFetched /\ absent = {}
    /\ in_flight = {} /\ trace = <<>> /\ outcome = NoOutcome
    /\ last = NoLast

\* card_data = map_card_detail(detail)
MapCardDetail ==
    /\ pc = "idle"
    /\ card_data' = map_card_detail(Val(detail))
    /\ pc' = "done"
    /\ UNCHANGED <<persistent, strategy, error, idsVars, pageVars, sets, card_list, idx,
                   card_id, img_url, detail, img_filename, downloaded, histVars, last,
                   in_flight, trace>>

SpecMap == InitMap /\ [][MapCardDetail]_vars

\* ------------------------------------------------------------------------
\* Properties
\* ------------------------------------------------------------------------
RowsOf(rows, number) == {r \in rows : r.card_number = number}

SavePc == pc \in {"save", "ids_save"}

PagingRun == strategy \in {"set", "all"}

\* C1: upsert idempotence. An upsert of a record whose card number is not in
\* the table reports Created; applying the same record (same image path) again
\* reports Updated and leaves the table exactly as the first application left it.
C1_UpsertIdempotent ==
    /\ (/\ last.card_data # None
        /\ \A r \in last.before : r.card_number # last.card_data.card_number)
       => last.is_new
    /\ last.repeat => (~last.is_new /\ db = last.before)

C1_Witness == last.repeat /\ Cardinality(db) = 1

\* C2: upsert partial update. When the card number is already stored, every
\* field whose incoming value is None (the image path included) keeps its
\* stored value, every other field takes the incoming value, and the rows of
\* other card numbers are untouched.
C2_PartialUpdate ==
    LET data == last.card_data
    IN  (data # None /\ RowsOf(last.before, data.card_number) # {}) =>
          /\ \A old \in RowsOf(last.before, data.card_number) :
               \E new \in RowsOf(db, data.card_number) :
                 /\ \A f \in CardFields :
                      new[f] = IF data[f] # None THEN data[f] ELSE old[f]
                 /\ new.image_local = IF last.image_local # None
                                      THEN last.image_local ELSE old.image_local
          /\ Cardinality(RowsOf(db, data.card_number)) = 1
          /\ db \ RowsOf(db, data.card_number)
               = last.before \ RowsOf(last.before, data.card_number)

\* stored power 5000 survives an upsert with power None and a new effect text
C2_Witness ==
    /\ last.card_data # None
    /\ last.card_data.power = None
    /\ last.card_data.effect = Some(<<"b">>)
    /\ \E old \in RowsOf(last.before, last.card_data.card_number) :
         old.power = Some(5000) /\ old.effect = Some(<<"a">>)
    /\ \E new \in RowsOf(db, last.card_data.card_number) :
         new.power = Some(5000) /\ new.effect = Some(<<"b">>)

\* C3, as claimed: every stored card has exactly one of cost and life, life for
\* the leader kind and cost for every other kind.
C3_ExactlyOneOfCostLife ==
    \A r \in db :
      IF r.card_type = Some(Leader)
      THEN r.life # None /\ r.cost = None
      ELSE r.cost # None /\ r.life = None

\* C3, amended: a mapped record never has both; it has no cost when its kind
\* is the leader kind and no life otherwise.  An upsert leaves the slot the
\* incoming kind excludes as it was stored (None for a new row).
C3_ExcludedSlotNeverWritten ==
    [][SavePc =>
        LET leader == card_data.card_type = Some(Leader)
        IN  /\ leader => card_data.cost = None
            /\ ~leader => card_data.life = None
            /\ RowsOf(db', card_data.card_number) # {}
            /\ \A new \in RowsOf(db', card_data.card_number) :
                 LET olds == RowsOf(db, card_data.card_number)
                 IN  IF olds = {}
                     THEN IF leader THEN new.cost = None ELSE new.life = None
                     ELSE \E o \in olds :
                            IF leader THEN new.cost = o.cost ELSE new.life = o.life
    ]_vars

\* a stored card with both slots populated: its kind changed between upserts
C3_Witness == \E r \in db : r.cost # None /\ r.life # None

\* C4: paging termination. The pages of the loop are requested as 1, 2, ...;
\* a further page is requested only after a non-empty page whose index is below
\* the total in force; the loop ends without error at an empty page or at a
\* page whose index has reached the total.
C4_PagingTermination ==
    PagingRun =>
      LET n == Len(page_log)
      IN  /\ \A k \in 1..n : page_log[k].page = k
          /\ \A k \in 1..n :
               k < n => (~page_log[k].empty /\ k < page_log[k].total)
          /\ (n > 0 /\ page_log[n].empty) => pc = "done"
          /\ (n > 0 /\ pc = "list") =>
               (~page_log[n].empty /\ n < page_log[n].total /\ page = n + 1)
          /\ (n > 0 /\ pc = "done") =>
               /\ error = None
               /\ page_log[n].empty \/ page_log[n].page >= page_log[n].total

\* page 2 is empty while the total is 3: the loop has ended after page 2
C4_Witness ==
    /\ PagingRun /\ pc = "done"
    /\ Len(page_log) = 2
    /\ page_log[2].empty /\ page_log[2].total = 3
    /\ ops.upsert >= 1

\* C5: deduplication by remote id. In a by-set or all run no id has more than
\* one detail request, and there are no more image downloads than detail
\* requests and no more upserts than image downloads.
C5_DetailOncePerId ==
    PagingRun =>
      /\ \A i \in Ids : fetched[i] <= 1
      /\ ops.image <= ops.detail
      /\ ops.upsert <= ops.image

\* a page that lists one id twice has been worked through
C5_Witness ==
    /\ PagingRun
    /\ Len(card_list) = 2 /\ idx = 2
    /\ card_list[1].id = card_list[2].id
    /\ fetched[card_list[1].id] = 1

Norm(request) == Upper(Strip(request))

Matches(item, request) ==
    base_number(extract_card_number_from_img(item.cardImg)) = Some(Norm(request))

NoMatch(list, request) == \A i \in DOMAIN list : ~Matches(list[i], request)

\* C6: by-identifier matching. The item taken to the detail request is the
\* first item of the search result whose base number equals the normalised
\* request; an iteration issues at most one detail request; when no item
\* matches there is no detail request and the identifier is appended to not_found.
C6_IdsMatching ==
    /\ [](pc \in {"ids_sleep1", "ids_detail"} =>
            /\ idx \in DOMAIN card_list
            /\ card_list[idx].id = card_id
            /\ Matches(card_list[idx], Head(queue))
            /\ \A j \in 1..(idx - 1) : ~Matches(card_list[j], Head(queue)))
    /\ [](strategy = "ids" => ops.detail_iter <= 1)
    /\ [](pc = "ids_sleep2" /\ NoMatch(card_list, Head(queue)) => ops.detail_iter = 0)
    /\ [][(pc = "ids_search" /\ in_flight # {} /\ error' = None /\ NoMatch(card_list', Head(queue))) =>
            /\ not_found' = Append(not_found, Norm(Head(queue)))
            /\ pc' \notin {"ids_sleep1", "ids_detail"}
            /\ ops'.detail = ops.detail]_vars

\* the second item of the result is the match, for a request that needed
\* normalising
C6_Witness ==
    /\ pc = "ids_detail" /\ idx = 2
    /\ Head(queue) # card_no
    /\ Matches(card_list[2], Head(queue))

\* C7, as claimed: at the end of a by-identifier run every identifier whose
\* matched item had an empty detail payload is in not_found.
C7_AbsentDetailRecorded ==
    (strategy = "ids" /\ pc = "done") =>
      \A n \in absent : \E i \in DOMAIN not_found : not_found[i] = n

\* C8: image-download failure is not fatal. A failed download leads to the
\* upsert of the same item; that upsert stores the card with the image path it
\* had before (None for a new row), and the run goes on.
C8_ImageFailureNonFatal ==
    /\ [][(pc \in {"image", "ids_image"} /\ in_flight # {} /\ ~downloaded') =>
            (pc' \in {"save", "ids_save"} /\ error' = None /\ files' = files
             /\ db' = db)]_vars
    /\ [][(SavePc /\ ~downloaded) =>
            /\ error' = None /\ pc' \notin {"aborted", "image", "ids_image"}
            /\ RowsOf(db', card_data.card_number) # {}
            /\ \A new \in RowsOf(db', card_data.card_number) :
                 LET olds == RowsOf(db, card_data.card_number)
                 IN  IF olds = {} THEN new.image_local = None
                     ELSE \E o \in olds : new.image_local = o.image_local]_vars

\* the download failed for a card that is stored with an image path
C8_Witness ==
    /\ SavePc /\ ~downloaded /\ ops.image >= 2
    /\ \E o \in RowsOf(db, card_data.card_number) : o.image_local # None

\* C9: an unmatched set code ends the by-set run before paging: no list,
\* detail or image request, no upsert, table and files unchanged.
C9_UnresolvedSetEndsRun ==
    /\ []((strategy = "set" /\ ops.sets >= 1 /\ error = None /\ ~Truthy(set_name)) =>
            /\ pc = "done"
            /\ ops.list = 0 /\ ops.detail = 0 /\ ops.image = 0 /\ ops.upsert = 0
            /\ page_log = <<>>)
    /\ [][(pc = "set_sets" /\ ~Truthy(set_name')) =>
            (db' = db /\ files' = files)]_vars

C9_Witness ==
    /\ strategy = "set" /\ pc = "done"
    /\ ops.sets = 1 /\ set_name = None /\ set_code = <<"Z","Z","9","9">>

\* C10: a transport failure ends the run where it happens: the failing step
\* changes neither table nor files, nothing is requested or stored afterwards,
\* and every stored row is a complete row.
C10_TransportFailureAborts ==
    /\ [](error # None => pc = "aborted")
    /\ [](\A r \in db : /\ DOMAIN r = CardFields \cup {"id", "image_local"}
                        /\ r.card_number # None /\ r.name # None
                        /\ r.card_type # None /\ r.color # None)
    /\ [][(error = None /\ error' # None) => (db' = db /\ files' = files)]_vars
    /\ [][(pc = "aborted" /\ runs' = runs) =>
            UNCHANGED <<db, files, ops, fetched, page_log>>]_vars

\* a run that ended with a transport failure after it had stored a card
C10_Witness == pc = "aborted" /\ error # None /\ ops.upsert >= 1 /\ db # {}

\* C11: strictly sequential crawl. In every state of a run, whatever the
\* strategy, at most one network operation (list, detail, set catalog, image)
\* has been sent and not yet answered; a request is sent only when none is
\* outstanding, and none is outstanding once the run has ended.
C11_StrictlySequential ==
    /\ [](Cardinality(in_flight) <= 1)
    /\ [](Idle => in_flight = {})
    /\ [][(in_flight' # in_flight /\ in_flight' # {}) => in_flight = {}]_vars

\* a detail request is outstanding in a paging run, after a list and an image
\* request were answered
C11_Witness ==
    /\ PagingRun /\ in_flight = {"detail"}
    /\ ops.list >= 1 /\ ops.image >= 1

\* the steps of trace that belong to an item of the list in hand
ItemSteps == {k \in DOMAIN trace : trace[k].op # "list" /\ trace[k].op # "sets"}

\* the request of the next page is outstanding or about to be answered
NextPageRequested ==
    /\ PagingRun /\ pc = "list" /\ Len(trace) > 1
    /\ trace[1].op = "list" /\ trace[1].at = "list"
    /\ trace[Len(trace)].op = "list"

VariantSuffix(url) ==
    LET img_number == extract_card_number_from_img(url)
    IN  IF Truthy(img_number) /\ Contains(Val(img_number), "_")
        THEN SubSeq(Val(img_number), Len(SplitFirst(Val(img_number), "_")) + 1,
                    Len(Val(img_number)))
        ELSE <<>>

\* C13, as claimed: in every strategy the image of an item whose URL encodes a
\* variant suffix _N is written to {cardNumber}_{N}.{ext}, and the image of an
\* item without a suffix to {cardNumber}.{ext}.
C13_VariantAwareNaming ==
    (pc \in {"image", "ids_image", "save", "ids_save"}) =>
      img_filename = Val(card_data.card_number) \o VariantSuffix(img_url)
                       \o <<".">> \o image_ext(img_url)

\* C14: the stored image path is valid. In every state each stored card that
\* has an image path names a file present in the cards directory; and a step
\* gives a card an image path, or another one, only as the upsert of an item
\* whose image download succeeded, the path being that of the file written.
C14_StoredImagePathValid ==
    /\ [](\A r \in db :
            r.image_local # None =>
              \E f \in files : r.image_local = Some(CardsPath(f)))
    /\ [][\A new \in db' :
            (new.image_local # None /\ new \notin db
             /\ \A o \in RowsOf(db, new.card_number) : o.image_local # new.image_local)
            => /\ SavePc /\ downloaded
               /\ new.card_number = card_data.card_number
               /\ new.image_local = Some(CardsPath(img_filename))
               /\ img_filename \in files]_vars

\* one card stored with the path of its downloaded image, another stored
\* without a path after its download failed
C14_Witness ==
    /\ \E r \in db : r.image_local # None
    /\ \E r \in db : r.image_local = None
    /\ Cardinality(files) = 1 /\ ops.image = 2 /\ ops.upsert = 2

\* the card numbers stored in a table
StoredNumbers(rows) == {r.card_number : r \in rows}

\* C15: natural-key uniqueness and no deletion. After any sequence of upserts
\* no two stored rows have the same card number; an upsert removes no stored
\* card number and adds at most the card number it was given.
C15_KeyUniqueNoDeletion ==
    /\ [](\A r1, r2 \in db : r1.card_number = r2.card_number => r1 = r2)
    /\ [][/\ StoredNumbers(db) \subseteq StoredNumbers(db')
          /\ StoredNumbers(db') \subseteq
               StoredNumbers(db) \cup {last'.card_data.card_number}]_vars

\* a second upsert of a stored card number with a different record: still one
\* row with that number
C15_Witness ==
    /\ ops.upsert = 2 /\ ~last.is_new /\ ~last.repeat
    /\ Cardinality(db) = 1
    /\ StoredNumbers(last.before) = StoredNumbers(db)

RECURSIVE SetSum(_, _)
SetSum(S, f) ==
    IF S = {} THEN 0
    ELSE LET x == CHOOSE y \in S : TRUE
         IN  f[x] + SetSum(S \ {x}, f)

\* detail responses of this run that carried a record
PresentCount == SetSum(Ids, [i \in Ids |-> outcome[i].present])

\* upserts of this run
StoredCount == SetSum(Ids, [i \in Ids |-> outcome[i].stored])

IdsDone == strategy = "ids" /\ pc = "done"

\* C16: by-identifier outcome counts. total is the number of requested
\* identifiers from the start of the run on; found_count is the number of
\* upserts performed; at the end of a run without transport failure every
\* identifier has had its search, and found_count is the number of matched
\* items whose detail response carried a record.  For the single request
\* EB04-001 with a matching item and a record, the run ends with found_count 1,
\* total 1 and exactly one stored card EB04-001 with set code EB04.
C16_IdsOutcomeCounts ==
    /\ [][(strategy' = "ids" /\ runs' # runs) => total' = Len(queue')]_vars
    /\ [][(strategy = "ids" /\ runs' = runs) => total' = total]_vars
    /\ [](strategy = "ids" => (found_count = ops.upsert /\ found_count = StoredCount))
    /\ [](IdsDone =>
            /\ queue = <<>>
            /\ total = ops.list
            /\ found_count = PresentCount
            /\ found_count <= ops.detail /\ ops.detail + Len(not_found) <= total)
    /\ [](IdsDone /\ total = 1 /\ card_no = N1 /\ PresentCount = 1 =>
            /\ found_count = 1 /\ ops.upsert = 1
            /\ Cardinality(db) = 1
            /\ \A r \in db : r.card_number = Some(N1) /\ r.set_code = Some(<<"E","B","0","4">>))

\* the run for the single request EB04-001 has ended with its card stored
C16_Witness ==
    /\ IdsDone /\ total = 1 /\ card_no = N1 /\ not_found = <<>>
    /\ found_count = 1
    /\ \E r \in db : r.card_number = Some(N1) /\ r.set_code = Some(<<"E","B","0","4">>)

\* the bracketed code of a set without hyphens and the letter C
CleanCode(code) == Remove(Remove(code, "-"), "C")

\* the sets whose bracketed code is the requested code, in upper case
ExactHits ==
    {i \in DOMAIN sets : BracketCode(sets[i].name) = Some(Upper(set_code))}

\* the sets whose bracketed code equals the requested code once hyphens and
\* the letter C are removed from both
CleanHits ==
    {i \in DOMAIN sets :
       /\ BracketCode(sets[i].name) # None
       /\ CleanCode(Val(BracketCode(sets[i].name))) = CleanCode(Upper(set_code))}

\* C17, as claimed: find_set_name returns a set whose bracketed code is the
\* requested code exactly if there is one, otherwise the first set in list
\* order whose code matches after removing hyphens and the letter C, and None
\* iff no set matches either way.
C17_SetNameMatching ==
    (strategy = "none" /\ pc = "done") =>
      IF ExactHits # {}
      THEN \E i \in ExactHits : set_name = Some(sets[i].name)
      ELSE IF CleanHits # {}
      THEN set_name = Some(sets[CHOOSE i \in CleanHits : \A j \in CleanHits : i <= j].name)
      ELSE set_name = None

\* the raw values of cardLife that stand for no number
NoNumber == { Some(<<"-">>), Some(<<>>), None, Some(<<"x">>), Some(<<"1",".","5">>) }

Mapped == strategy = "none" /\ pc = "done" /\ detail # None

\* C18: field-mapper routing. For every raw record map_card_detail puts the
\* parsed cardLife into life and leaves cost None when the raw kind is the
\* leader label, and otherwise puts it into cost and leaves life None; it never
\* fills both; "-", the empty string, None and a non-numeric string give None,
\* a digit string gives its number.
C18_MapperRouting ==
    Mapped =>
      LET info   == Val(detail)
          parsed == parse_int_safe(info.cardLife)
      IN  /\ card_data # None
          /\ info.cardType = Leader  => (card_data.life = parsed /\ card_data.cost = None)
          /\ info.cardType # Leader  => (card_data.cost = parsed /\ card_data.life = None)
          /\ card_data.cost = None \/ card_data.life = None
          /\ info.cardLife \in NoNumber =>
               (card_data.cost = None /\ card_data.life = None)
          /\ info.cardLife = Some(<<"1","0">>) =>
               (card_data.cost = Some(10) \/ card_data.life = Some(10))
          /\ info.cardLife \notin NoNumber =>
               (card_data.cost # None \/ card_data.life # None)
          /\ DOMAIN card_data = CardFields

\* a leader record with cardLife "5" has life 5 and no cost
C18_Witness ==
    /\ Mapped /\ Val(detail).cardType = Leader
    /\ Val(detail).cardLife = Some(<<"5">>)
    /\ card_data.life = Some(5) /\ card_data.cost = None

\* a request to the remote catalog service: a list or a detail request
CatalogRequest(k) == trace[k].op \in {"list", "detail"}

\* C19, as claimed: in each strategy the fixed delay elapses between any two
\* consecutive requests to the remote catalog service (list or detail) of a
\* run; no two of them are sent back to back.
C19_RequestPacing ==
    \A a, b \in DOMAIN trace :
      (/\ a < b /\ CatalogRequest(a) /\ CatalogRequest(b)
       /\ \A k \in (a+1)..(b-1) : ~CatalogRequest(k))
      => \E k \in (a+1)..(b-1) : trace[k].op = "delay"

\* the run is over without a transport failure, and every list response of
\* the loop (and the first response of scrape_all, whose total the loop keeps)
\* was non-empty and reported the same total N >= 1
SteadyDone ==
    /\ PagingRun /\ pc = "done" /\ error = None
    /\ page_log # <<>>
    /\ total_pages >= 1
    /\ \A k \in DOMAIN page_log :
         ~page_log[k].empty /\ page_log[k].total = total_pages

\* C20: paging completeness. A by-set or all run that has been started ends;
\* when it has ended without transport failure after list responses that were
\* all non-empty and all reported the same total N >= 1, the loop has
\* requested the pages 1..N, each once and in this order, every id listed on
\* them has had exactly one detail request and no other id has had one, and
\* every id whose detail response carried a record has been upserted.
C20_PagingCompleteness ==
    /\ (PagingRun /\ ~Idle) ~> (PagingRun /\ pc = "done")
    /\ [](SteadyDone =>
            /\ Len(page_log) = total_pages
            /\ \A k \in DOMAIN page_log : page_log[k].page = k
            /\ ops.list = total_pages + (IF strategy = "all" THEN 1 ELSE 0)
            /\ \A i \in Ids :
                 /\ fetched[i] = (IF outcome[i].listed THEN 1 ELSE 0)
                 /\ outcome[i].stored = outcome[i].present
                 /\ outcome[i].present <= fetched[i]
            /\ in_flight = {})

\* a run over two pages of two items each has ended: three ids listed, each
\* with one detail request, the ones with a record stored
C20_Witness ==
    /\ SteadyDone /\ total_pages = 2 /\ Len(page_log) = 2
    /\ \A i \in Ids : outcome[i].listed /\ fetched[i] = 1
    /\ ops.upsert >= 2

====
